---------------------------- MODULE Spec2Model ----------------------------
(***************************************************************************)
(* The Banking API of src/main.py: a ledger kept in two JSON files, a      *)
(* mapping of users (USERS_FILE) and a list of withdrawal requests         *)
(* (WITHDRAWS_FILE). Every handler loads the file(s) it needs, checks its  *)
(* preconditions in the order of the code, mutates the loaded copy and     *)
(* writes the whole file back. Amounts are modelled as exact integers      *)
(* (units of money); rounding of Python floats is not modelled.            *)
(***************************************************************************)
EXTENDS Integers, Sequences, FiniteSets, TLC

\* ------------------------------------------------------------------ bounds
MaxCredit == 2      \* cap on the total credited by add_balance
MaxLog    == 2      \* cap on the length of the withdrawal log
MaxFaults == 1      \* cap on injected storage failures (SpecFail only)
MaxCalls  == 3      \* cap on the calls started by the two threads (SpecConc only)

\* ------------------------------------------------------- program constants
MinPasswordLen == 6

HTTP_200_OK == 200
HTTP_201_CREATED == 201
HTTP_400_BAD_REQUEST == 400
HTTP_404_NOT_FOUND == 404
HTTP_500_INTERNAL_SERVER_ERROR == 500

\* ------------------------------------------------------------------ inputs
Emails    == {"a@x", "b@y"}
Names     == {"A"}
Passwords == {<<"s", "e", "c", "r", "t">>, <<"s", "e", "c", "r", "e", "t">>}
Amounts   == {-1, 0, 1, 2}
Indexes   == -1 .. MaxLog

NoEmail == ""
NoName  == ""
NoPassword == <<>>
NoId == -1

\* A storage-failure plan: the at-th file access of the handler raises (0: none).
NoFault == [at |-> 0]

\* The plans of a handler that makes n file accesses.
FaultPlans(n) == [at : 0 .. n]

\* The two threads that serve requests side by side in SpecConc.
Workers == {"t1", "t2"}

VARIABLES USERS_FILE, WITHDRAWS_FILE, last, credited, faults, pool

vars == <<USERS_FILE, WITHDRAWS_FILE, last, credited, faults, pool>>

\* The content of the two stores as a handler would load them.
users == USERS_FILE.data
withdraws == WITHDRAWS_FILE.data

\* ------------------------------------------------------------ file access
\* load_data: the default when the file does not exist, else its content, or
\* an exception (HTTP 500) when opening or reading the file fails.
load_data(file, default, fail) ==
    IF file.state = "absent"
    THEN [ok |-> TRUE, data |-> default]
    ELSE IF fail
         THEN [ok |-> FALSE, data |-> default]
         ELSE [ok |-> TRUE, data |-> file.data]

\* save_data: rewrites the whole file, or raises (HTTP 500). A failing save is
\* taken to raise in open(), before the file is touched: the mildest failure
\* (one that strikes after open(.., "w") truncated the file loses its content).
save_data(file, data, fail) ==
    IF fail
    THEN [ok |-> FALSE, file |-> file]
    ELSE [ok |-> TRUE, file |-> [state |-> "present", data |-> data]]

load_users(file, fail) == load_data(file, <<>>, fail)

save_users(file, u, fail) == save_data(file, u, fail)

load_withdraws(file, fail) == load_data(file, <<>>, fail)

save_withdraws(file, w, fail) == save_data(file, w, fail)

\* ---------------------------------------------------------------- responses
\* The statistics of a response that carries none.
NoStats ==
    [total_users |-> 0, total_balance |-> 0, total_withdraws |-> 0,
     approved_withdraws |-> 0, pending_withdraws |-> 0]

HTTPException(code, detail) ==
    [status |-> code, detail |-> detail, request_id |-> NoId,
     records |-> <<>>, stats |-> NoStats]

Response(code, message) ==
    [status |-> code, detail |-> message, request_id |-> NoId,
     records |-> <<>>, stats |-> NoStats]

\* An exception no handler catches (KeyError, AttributeError): the framework
\* answers HTTP 500.
Unhandled == HTTPException(HTTP_500_INTERNAL_SERVER_ERROR, "Internal Server Error")

LoadFailed == HTTPException(HTTP_500_INTERNAL_SERVER_ERROR, "Failed to load data")
SaveFailed == HTTPException(HTTP_500_INTERNAL_SERVER_ERROR, "Failed to save data")

\* What a handler leaves behind: the two files, its response, and whether the
\* planned storage failure was reached.
Outcome(uf, wf, resp, faulted) ==
    [users_file |-> uf, withdraws_file |-> wf, resp |-> resp, faulted |-> faulted]

\* ------------------------------------------------------------------ signup
NewUser(name, password) ==
    [name |-> name, password |-> password, balance |-> 0]

\* A store rebuilt with the new user alone.
SetUser_only(u, email, rec) == [e \in {email} |-> rec]

SetUser(u, email, rec) ==
    [e \in (DOMAIN u) \cup {email} |-> IF e = email THEN rec ELSE u[e]]

\* signup with its two checks in the other order: the password first.
signup_password_first(uf, wf, name, email, password, io) ==
    LET ld == load_users(uf, io.at = 1) IN
    IF ~ld.ok THEN Outcome(uf, wf, LoadFailed, TRUE)
    ELSE IF Len(password) < MinPasswordLen
    THEN Outcome(uf, wf, HTTPException(HTTP_400_BAD_REQUEST,
                                       "Password must be at least 6 characters"), FALSE)
    ELSE IF email \in DOMAIN ld.data
    THEN Outcome(uf, wf, HTTPException(HTTP_400_BAD_REQUEST, "User already exists"), FALSE)
    ELSE LET sv == save_users(uf, SetUser(ld.data, email, NewUser(name, password)),
                              io.at = 2) IN
         IF ~sv.ok THEN Outcome(sv.file, wf, SaveFailed, TRUE)
         ELSE Outcome(sv.file, wf, Response(HTTP_201_CREATED, "Signup successful"), FALSE)

signup(uf, wf, name, email, password, io) ==
    LET ld == load_users(uf, io.at = 1) IN
    IF ~ld.ok THEN Outcome(uf, wf, LoadFailed, TRUE)
    ELSE IF email \in DOMAIN ld.data
    THEN Outcome(uf, wf, HTTPException(HTTP_400_BAD_REQUEST, "User already exists"), FALSE)
    ELSE IF Len(password) < MinPasswordLen
    THEN Outcome(uf, wf, HTTPException(HTTP_400_BAD_REQUEST,
                                       "Password must be at least 6 characters"), FALSE)
    ELSE LET sv == save_users(uf, SetUser(ld.data, email, NewUser(name, password)),
                              io.at = 2) IN
         IF ~sv.ok THEN Outcome(sv.file, wf, SaveFailed, TRUE)
         ELSE Outcome(sv.file, wf, Response(HTTP_201_CREATED, "Signup successful"), FALSE)

\* ------------------------------------------------------- balance arithmetic
\* A credit applied twice.
Credit_double(u, email, amount) == [u EXCEPT ![email].balance = @ + amount + amount]

\* users[email]["balance"] += amount
Credit(u, email, amount) == [u EXCEPT ![email].balance = @ + amount]

\* A debit that is never applied.
Debit_none(u, email, amount) == u

\* users[email]["balance"] -= amount
Debit(u, email, amount) == [u EXCEPT ![email].balance = @ - amount]

\* The amount check with < for <=.
NotPositive_strict(amount) == amount < 0

\* data.amount <= 0
NotPositive(amount) == amount <= 0

\* The balance check off by one.
Insufficient_lax(u, email, amount) == u[email].balance + 1 < amount

\* users[email]["balance"] < data.amount
Insufficient(u, email, amount) == u[email].balance < amount

\* ------------------------------------------------------------- add_balance
\* add_balance crediting to_email instead of from_email.
add_balance_to(uf, wf, from_email, to_email, amount, io) ==
    LET ld == load_users(uf, io.at = 1) IN
    IF ~ld.ok THEN Outcome(uf, wf, LoadFailed, TRUE)
    ELSE IF from_email \notin DOMAIN ld.data
    THEN Outcome(uf, wf, HTTPException(HTTP_404_NOT_FOUND, "User not found"), FALSE)
    ELSE IF NotPositive(amount)
    THEN Outcome(uf, wf, HTTPException(HTTP_400_BAD_REQUEST, "Amount must be positive"), FALSE)
    ELSE LET sv == save_users(uf, Credit(ld.data, to_email, amount),
                              io.at = 2) IN
         IF ~sv.ok THEN Outcome(sv.file, wf, SaveFailed, TRUE)
         ELSE Outcome(sv.file, wf, Response(HTTP_200_OK, "added"), FALSE)

add_balance(uf, wf, from_email, to_email, amount, io) ==
    LET ld == load_users(uf, io.at = 1) IN
    IF ~ld.ok THEN Outcome(uf, wf, LoadFailed, TRUE)
    ELSE IF from_email \notin DOMAIN ld.data
    THEN Outcome(uf, wf, HTTPException(HTTP_404_NOT_FOUND, "User not found"), FALSE)
    ELSE IF NotPositive(amount)
    THEN Outcome(uf, wf, HTTPException(HTTP_400_BAD_REQUEST, "Amount must be positive"), FALSE)
    ELSE LET sv == save_users(uf, Credit(ld.data, from_email, amount),
                              io.at = 2) IN
         IF ~sv.ok THEN Outcome(sv.file, wf, SaveFailed, TRUE)
         ELSE Outcome(sv.file, wf, Response(HTTP_200_OK, "added"), FALSE)

\* ---------------------------------------------------------------- transfer
transfer(uf, wf, from_email, to_email, amount, io) ==
    LET ld == load_users(uf, io.at = 1) IN
    IF ~ld.ok THEN Outcome(uf, wf, LoadFailed, TRUE)
    ELSE IF from_email \notin DOMAIN ld.data \/ to_email \notin DOMAIN ld.data
    THEN Outcome(uf, wf, HTTPException(HTTP_404_NOT_FOUND, "User not found"), FALSE)
    ELSE IF NotPositive(amount)
    THEN Outcome(uf, wf, HTTPException(HTTP_400_BAD_REQUEST, "Amount must be positive"), FALSE)
    ELSE IF Insufficient(ld.data, from_email, amount)
    THEN Outcome(uf, wf, HTTPException(HTTP_400_BAD_REQUEST, "Insufficient balance"), FALSE)
    ELSE LET sv == save_users(uf, Credit(Debit(ld.data, from_email, amount),
                                         to_email, amount),
                              io.at = 2) IN
         IF ~sv.ok THEN Outcome(sv.file, wf, SaveFailed, TRUE)
         ELSE Outcome(sv.file, wf, Response(HTTP_200_OK, "Transferred"), FALSE)

\* ---------------------------------------------------------------- withdraw
None == "None"
\* datetime.now().isoformat(): some non-null timestamp string
Now == "now"

\* A new request whose status is spelled in lower case.
NewWithdraw_lower(email, amount) ==
    [user |-> email, amount |-> amount, status |-> "pending",
     timestamp |-> Now, processed_at |-> None]

NewWithdraw(email, amount) ==
    [user |-> email, amount |-> amount, status |-> "Pending",
     timestamp |-> Now, processed_at |-> None]

\* A new request put at the front of the log.
AppendWithdraw_front(ws, w) == <<w>> \o ws

\* withdraws.append(new_withdraw)
AppendWithdraw(ws, w) == Append(ws, w)

\* The request id counted from 1.
RequestId_len(ws) == Len(ws)

\* "request_id": len(withdraws) - 1
RequestId(ws) == Len(ws) - 1

withdraw(uf, wf, email, amount, io) ==
    LET ld == load_users(uf, io.at = 1) IN
    IF ~ld.ok THEN Outcome(uf, wf, LoadFailed, TRUE)
    ELSE IF email \notin DOMAIN ld.data
    THEN Outcome(uf, wf, HTTPException(HTTP_404_NOT_FOUND, "User not found"), FALSE)
    ELSE IF NotPositive(amount)
    THEN Outcome(uf, wf, HTTPException(HTTP_400_BAD_REQUEST, "Amount must be positive"), FALSE)
    ELSE IF Insufficient(ld.data, email, amount)
    THEN Outcome(uf, wf, HTTPException(HTTP_400_BAD_REQUEST, "Insufficient balance"), FALSE)
    ELSE LET su == save_users(uf, Debit(ld.data, email, amount), io.at = 2) IN
         IF ~su.ok THEN Outcome(su.file, wf, SaveFailed, TRUE)
         ELSE LET lw == load_withdraws(wf, io.at = 3) IN
              IF ~lw.ok THEN Outcome(su.file, wf, LoadFailed, TRUE)
              ELSE LET ws == AppendWithdraw(lw.data, NewWithdraw(email, amount))
                       sw == save_withdraws(wf, ws, io.at = 4) IN
                   IF ~sw.ok THEN Outcome(su.file, sw.file, SaveFailed, TRUE)
                   ELSE Outcome(su.file, sw.file,
                                [Response(HTTP_200_OK, "Withdraw request sent")
                                    EXCEPT !.request_id = RequestId(ws)],
                                FALSE)

\* -------------------------------------------------------- approve_withdraw
\* The log is a Python list indexed from 0; a TLA+ sequence is indexed from 1.
At(ws, index) == ws[index + 1]

\* index < 0 or index >= len(withdraws)
InvalidIndex(ws, index) == index < 0 \/ index >= Len(ws)

\* A check that lets a Rejected request through.
AlreadyProcessed_approved_only(ws, index) == At(ws, index).status = "Approved"

\* withdraws[index]["status"] != "Pending"
AlreadyProcessed(ws, index) == At(ws, index).status # "Pending"

\* A resolution that writes to the first record whatever the index.
Resolve_first(ws, index, s) ==
    [ws EXCEPT ![1].status = s, ![1].processed_at = Now]

\* A resolution that forgets the processed_at stamp.
Resolve_nostamp(ws, index, s) == [ws EXCEPT ![index + 1].status = s]

\* withdraws[index]["status"] = s; withdraws[index]["processed_at"] = now
Resolve(ws, index, s) ==
    [ws EXCEPT ![index + 1].status = s, ![index + 1].processed_at = Now]

approve_withdraw(uf, wf, index, io) ==
    LET lw == load_withdraws(wf, io.at = 1) IN
    IF ~lw.ok THEN Outcome(uf, wf, LoadFailed, TRUE)
    ELSE IF InvalidIndex(lw.data, index)
    THEN Outcome(uf, wf, HTTPException(HTTP_404_NOT_FOUND, "Invalid request index"), FALSE)
    ELSE IF AlreadyProcessed(lw.data, index)
    THEN Outcome(uf, wf, HTTPException(HTTP_400_BAD_REQUEST,
                                       "Withdrawal already processed"), FALSE)
    ELSE LET sw == save_withdraws(wf, Resolve(lw.data, index, "Approved"),
                                  io.at = 2) IN
         IF ~sw.ok THEN Outcome(uf, sw.file, SaveFailed, TRUE)
         ELSE Outcome(uf, sw.file, Response(HTTP_200_OK, "Withdraw approved"), FALSE)

\* --------------------------------------------------------- reject_withdraw
\* A rejection that refunds the amount twice.
Refund_twice(u, w) == Credit(Credit(u, w.user, w.amount), w.user, w.amount)

\* A rejection that refunds nothing.
Refund_none(u, w) == u

\* email = withdraws[index]["user"]; amount = withdraws[index]["amount"];
\* users[email]["balance"] += amount
Refund(u, w) == Credit(u, w.user, w.amount)

reject_withdraw(uf, wf, index, io) ==
    LET lw == load_withdraws(wf, io.at = 1) IN
    IF ~lw.ok THEN Outcome(uf, wf, LoadFailed, TRUE)
    ELSE LET lu == load_users(uf, io.at = 2) IN
    IF ~lu.ok THEN Outcome(uf, wf, LoadFailed, TRUE)
    ELSE IF InvalidIndex(lw.data, index)
    THEN Outcome(uf, wf, HTTPException(HTTP_404_NOT_FOUND, "Invalid request index"), FALSE)
    ELSE IF AlreadyProcessed(lw.data, index)
    THEN Outcome(uf, wf, HTTPException(HTTP_400_BAD_REQUEST,
                                       "Withdrawal already processed"), FALSE)
    ELSE LET email == At(lw.data, index).user IN
         IF email \notin DOMAIN lu.data
         THEN \* users[email] raises KeyError: an unhandled exception, HTTP 500
              Outcome(uf, wf, Unhandled, FALSE)
         ELSE LET su == save_users(uf, Refund(lu.data, At(lw.data, index)),
                                   io.at = 3) IN
              IF ~su.ok THEN Outcome(su.file, wf, SaveFailed, TRUE)
              ELSE LET sw == save_withdraws(wf, Resolve(lw.data, index, "Rejected"),
                                            io.at = 4) IN
                   IF ~sw.ok THEN Outcome(su.file, sw.file, SaveFailed, TRUE)
                   ELSE Outcome(su.file, sw.file,
                                Response(HTTP_200_OK, "Withdraw rejected and amount refunded"),
                                FALSE)

\* ----------------------------------------------------------- get_withdraws
\* The status values a caller may pass: none, the empty string, the three
\* statuses as the log spells them, one in lower case, and an unknown word.
StatusInputs == {None, "", "Pending", "Approved", "Rejected", "pending", "bogus"}

\* valid_statuses = ["Pending", "Approved", "Rejected"]
valid_statuses == {"Pending", "Approved", "Rejected"}

\* str.lower() on the strings that occur
lower(str) ==
    CASE str = "Pending" -> "pending"
      [] str = "Approved" -> "approved"
      [] str = "Rejected" -> "rejected"
      [] OTHER -> str

\* if status: neither None nor the empty string
Truthy(status) == status # None /\ status # ""

\* [w for w in withdraws if w["status"].lower() == status.lower()]
FilterByStatus(ws, status) ==
    SelectSeq(ws, LAMBDA w : lower(w.status) = lower(status))

\* The parameter named status hides the imported module status inside the
\* handler, so status.HTTP_400_BAD_REQUEST in the raise statement is an
\* attribute lookup on a str: AttributeError, which nothing catches.
get_withdraws(uf, wf, status, io) ==
    LET lw == load_withdraws(wf, io.at = 1) IN
    IF ~lw.ok THEN Outcome(uf, wf, LoadFailed, TRUE)
    ELSE IF Truthy(status)
    THEN IF status \notin valid_statuses
         THEN Outcome(uf, wf, Unhandled, FALSE)
         ELSE Outcome(uf, wf,
                      [Response(HTTP_200_OK, "") EXCEPT
                          !.records = FilterByStatus(lw.data, status)],
                      FALSE)
    ELSE Outcome(uf, wf, [Response(HTTP_200_OK, "") EXCEPT !.records = lw.data], FALSE)

\* --------------------------------------------------------------- get_stats
RECURSIVE SumAmounts_all(_, _)
\* A sum that counts every record, whatever its status.
SumAmounts_all(ws, status) ==
    IF ws = <<>> THEN 0 ELSE Head(ws).amount + SumAmounts_all(Tail(ws), status)

RECURSIVE SumAmounts(_, _)
\* sum(w["amount"] for w in withdraws if w["status"] == status)
SumAmounts(ws, status) ==
    IF ws = <<>> THEN 0
    ELSE (IF Head(ws).status = status THEN Head(ws).amount ELSE 0)
         + SumAmounts(Tail(ws), status)

RECURSIVE SumValues(_, _)
\* sum(u["balance"] for u in users.values()), over the keys not yet visited
SumValues(u, keys) ==
    IF keys = {} THEN 0
    ELSE LET k == CHOOSE x \in keys : TRUE IN u[k].balance + SumValues(u, keys \ {k})

get_stats(uf, wf, io) ==
    LET lu == load_users(uf, io.at = 1) IN
    IF ~lu.ok THEN Outcome(uf, wf, LoadFailed, TRUE)
    ELSE LET lw == load_withdraws(wf, io.at = 2) IN
    IF ~lw.ok THEN Outcome(uf, wf, LoadFailed, TRUE)
    ELSE Outcome(uf, wf,
                 [Response(HTTP_200_OK, "") EXCEPT
                     !.stats = [total_users |-> Cardinality(DOMAIN lu.data),
                                total_balance |-> SumValues(lu.data, DOMAIN lu.data),
                                total_withdraws |-> Len(lw.data),
                                approved_withdraws |-> SumAmounts(lw.data, "Approved"),
                                pending_withdraws |-> SumAmounts(lw.data, "Pending")]],
                 FALSE)

\* ------------------------------------------------------------ state machine
\* The request a handler was called with, kept beside its response in last.
Request(op, name, password, email, to_email, amount, index) ==
    [op |-> op, name |-> name, password |-> password, email |-> email,
     to_email |-> to_email, amount |-> amount, index |-> index, filter |-> None]

\* A thread between two calls, and the pool with both threads so.
Idle == [pc |-> "idle", op |-> "", index |-> NoId, ws |-> <<>>, us |-> <<>>]
IdlePool == [threads |-> [t \in Workers |-> Idle], overlap |-> FALSE, calls |-> 0]

Init ==
    /\ USERS_FILE = [state |-> "absent", data |-> <<>>]
    /\ WITHDRAWS_FILE = [state |-> "absent", data |-> <<>>]
    /\ last = Request("start", NoName, NoPassword, NoEmail, NoEmail, 0, NoId)
              @@ Response(HTTP_200_OK, "")
    /\ credited = 0
    /\ faults = 0
    /\ pool = IdlePool

\* A storage failure is injected only while the fault budget lasts, and a
\* failure plan stands for a request only when the handler reaches the planned
\* file access (otherwise the request is the one served without a failure).
io_budget(out, io) ==
    /\ out.faulted => faults < MaxFaults
    /\ io # NoFault => out.faulted

\* One request served from start to end: the files and the response it leaves.
Serve(req, out, io, credit) ==
    /\ io_budget(out, io)
    /\ USERS_FILE' = out.users_file
    /\ WITHDRAWS_FILE' = out.withdraws_file
    /\ last' = req @@ out.resp
    /\ credited' = credited + credit
    /\ faults' = faults + (IF out.faulted THEN 1 ELSE 0)
    /\ UNCHANGED pool

Signup(name, email, password, io) ==
    \E out \in {signup(USERS_FILE, WITHDRAWS_FILE, name, email, password, io)} :
        Serve(Request("signup", name, password, email, NoEmail, 0, NoId), out, io, 0)

AddBalance(from_email, to_email, amount, io) ==
    \E out \in {add_balance(USERS_FILE, WITHDRAWS_FILE, from_email, to_email, amount, io)} :
        \E credit \in {IF out.resp.status = HTTP_200_OK THEN amount ELSE 0} :
            /\ credited + credit <= MaxCredit
            /\ Serve(Request("add_balance", NoName, NoPassword, from_email, to_email,
                             amount, NoId), out, io, credit)

Transfer(from_email, to_email, amount, io) ==
    \E out \in {transfer(USERS_FILE, WITHDRAWS_FILE, from_email, to_email, amount, io)} :
        Serve(Request("transfer", NoName, NoPassword, from_email, to_email, amount, NoId),
              out, io, 0)

Withdraw(email, amount, io) ==
    \E out \in {withdraw(USERS_FILE, WITHDRAWS_FILE, email, amount, io)} :
        /\ Len(out.withdraws_file.data) <= MaxLog
        /\ Serve(Request("withdraw", NoName, NoPassword, email, NoEmail, amount, NoId),
                 out, io, 0)

ApproveWithdraw(index, io) ==
    \E out \in {approve_withdraw(USERS_FILE, WITHDRAWS_FILE, index, io)} :
        Serve(Request("approve_withdraw", NoName, NoPassword, NoEmail, NoEmail, 0, index),
              out, io, 0)

RejectWithdraw(index, io) ==
    \E out \in {reject_withdraw(USERS_FILE, WITHDRAWS_FILE, index, io)} :
        Serve(Request("reject_withdraw", NoName, NoPassword, NoEmail, NoEmail, 0, index),
              out, io, 0)

GetWithdraws(status, io) ==
    \E out \in {get_withdraws(USERS_FILE, WITHDRAWS_FILE, status, io)} :
        Serve([Request("get_withdraws", NoName, NoPassword, NoEmail, NoEmail, 0, NoId)
                  EXCEPT !.filter = status], out, io, 0)

GetStats(io) ==
    \E out \in {get_stats(USERS_FILE, WITHDRAWS_FILE, io)} :
        Serve(Request("get_stats", NoName, NoPassword, NoEmail, NoEmail, 0, NoId),
              out, io, 0)

\* Requests served one at a time, every file access succeeding.
Next ==
    \/ \E name \in Names, email \in Emails, password \in Passwords :
          Signup(name, email, password, NoFault)
    \/ \E from_email \in Emails, to_email \in Emails, amount \in Amounts :
          AddBalance(from_email, to_email, amount, NoFault)
    \/ \E from_email \in Emails, to_email \in Emails, amount \in Amounts :
          Transfer(from_email, to_email, amount, NoFault)
    \/ \E email \in Emails, amount \in Amounts : Withdraw(email, amount, NoFault)
    \/ \E index \in Indexes : ApproveWithdraw(index, NoFault)
    \/ \E index \in Indexes : RejectWithdraw(index, NoFault)
    \/ \E status \in StatusInputs : GetWithdraws(status, NoFault)
    \/ GetStats(NoFault)

Spec == Init /\ [][Next]_vars

\* Requests served one at a time, any file access of a handler may fail.
NextFail ==
    \/ \E name \in Names, email \in Emails, password \in Passwords,
          io \in FaultPlans(2) : Signup(name, email, password, io)
    \/ \E from_email \in Emails, to_email \in Emails, amount \in Amounts,
          io \in FaultPlans(2) : AddBalance(from_email, to_email, amount, io)
    \/ \E from_email \in Emails, to_email \in Emails, amount \in Amounts,
          io \in FaultPlans(2) : Transfer(from_email, to_email, amount, io)
    \/ \E email \in Emails, amount \in Amounts, io \in FaultPlans(4) :
          Withdraw(email, amount, io)
    \/ \E index \in Indexes, io \in FaultPlans(2) : ApproveWithdraw(index, io)
    \/ \E index \in Indexes, io \in FaultPlans(4) : RejectWithdraw(index, io)

SpecFail == Init /\ [][NextFail]_vars

\* ------------------------------------------------------ overlapping handlers
\* approve_withdraw and reject_withdraw are plain def handlers, which the
\* framework runs in a thread pool: two calls can be in progress at once, each
\* doing its own load, check, mutate, save on its own copy. A step is one file
\* access together with the local computation that follows it.

\* The ledger the threads start from: a@x signed up, was credited and asked
\* for one or two withdrawals, all still Pending.
InitConc ==
    \E balance \in 0 .. 1, log \in {<<NewWithdraw("a@x", 1)>>,
                                     <<NewWithdraw("a@x", 1), NewWithdraw("a@x", 2)>>} :
        /\ USERS_FILE = [state |-> "present",
                         data |-> [SetUser(<<>>, "a@x",
                                           NewUser("A", <<"s", "e", "c", "r", "e", "t">>))
                                      EXCEPT !["a@x"].balance = balance]]
        /\ WITHDRAWS_FILE = [state |-> "present", data |-> log]
        /\ last = Request("start", NoName, NoPassword, NoEmail, NoEmail, 0, NoId)
                  @@ Response(HTTP_200_OK, "")
        /\ credited = balance + SumAmounts(log, "Pending")
        /\ faults = 0
        /\ pool = IdlePool

\* The thread t takes the step that leaves it in state next.
Step(t, next) ==
    pool' = [pool EXCEPT !.threads[t] = next]

\* The thread t ends its call with the response resp.
Return(t, resp) ==
    /\ pool' = [pool EXCEPT !.threads[t] = Idle]
    /\ last' = Request(pool.threads[t].op, NoName, NoPassword, NoEmail, NoEmail, 0,
                       pool.threads[t].index) @@ resp

\* A request arrives and a free thread takes it; the call overlaps another
\* when the other thread is in the middle of one.
Call(t, op, index) ==
    /\ pool.threads[t].pc = "idle"
    /\ pool.calls < MaxCalls
    /\ pool' = [pool EXCEPT
                   !.threads[t] = [Idle EXCEPT !.pc = "load_withdraws", !.op = op,
                                               !.index = index],
                   !.overlap = @ \/ \E o \in Workers \ {t} : pool.threads[o].pc # "idle",
                   !.calls = @ + 1]
    /\ UNCHANGED <<USERS_FILE, WITHDRAWS_FILE, last, credited, faults>>

\* withdraws = load_withdraws(); approve_withdraw then checks and marks its copy
LoadWithdraws(t) ==
    LET me == pool.threads[t]
        lw == load_withdraws(WITHDRAWS_FILE, FALSE) IN
    /\ me.pc = "load_withdraws"
    /\ UNCHANGED <<USERS_FILE, WITHDRAWS_FILE, credited, faults>>
    /\ IF me.op = "reject_withdraw"
       THEN /\ Step(t, [me EXCEPT !.pc = "load_users", !.ws = lw.data])
            /\ UNCHANGED last
       ELSE IF InvalidIndex(lw.data, me.index)
       THEN Return(t, HTTPException(HTTP_404_NOT_FOUND, "Invalid request index"))
       ELSE IF AlreadyProcessed(lw.data, me.index)
       THEN Return(t, HTTPException(HTTP_400_BAD_REQUEST, "Withdrawal already processed"))
       ELSE /\ Step(t, [me EXCEPT !.pc = "save_withdraws",
                                  !.ws = Resolve(lw.data, me.index, "Approved")])
            /\ UNCHANGED last

\* users = load_users(); reject_withdraw then checks, refunds and marks its copies
LoadUsers(t) ==
    LET me == pool.threads[t]
        lu == load_users(USERS_FILE, FALSE) IN
    /\ me.pc = "load_users"
    /\ UNCHANGED <<USERS_FILE, WITHDRAWS_FILE, credited, faults>>
    /\ IF InvalidIndex(me.ws, me.index)
       THEN Return(t, HTTPException(HTTP_404_NOT_FOUND, "Invalid request index"))
       ELSE IF AlreadyProcessed(me.ws, me.index)
       THEN Return(t, HTTPException(HTTP_400_BAD_REQUEST, "Withdrawal already processed"))
       ELSE IF At(me.ws, me.index).user \notin DOMAIN lu.data
       THEN Return(t, Unhandled)
       ELSE /\ Step(t, [me EXCEPT !.pc = "save_users",
                                  !.us = Refund(lu.data, At(me.ws, me.index)),
                                  !.ws = Resolve(me.ws, me.index, "Rejected")])
            /\ UNCHANGED last

\* save_users(users)
SaveUsers(t) ==
    LET me == pool.threads[t] IN
    /\ me.pc = "save_users"
    /\ USERS_FILE' = save_users(USERS_FILE, me.us, FALSE).file
    /\ Step(t, [me EXCEPT !.pc = "save_withdraws"])
    /\ UNCHANGED <<WITHDRAWS_FILE, last, credited, faults>>

\* save_withdraws(withdraws); return
SaveWithdraws(t) ==
    LET me == pool.threads[t] IN
    /\ me.pc = "save_withdraws"
    /\ WITHDRAWS_FILE' = save_withdraws(WITHDRAWS_FILE, me.ws, FALSE).file
    /\ Return(t, Response(HTTP_200_OK,
                          IF me.op = "reject_withdraw"
                          THEN "Withdraw rejected and amount refunded"
                          ELSE "Withdraw approved"))
    /\ UNCHANGED <<USERS_FILE, credited, faults>>

NextConc ==
    \/ \E t \in Workers, op \in {"approve_withdraw", "reject_withdraw"},
          index \in 0 .. MaxLog - 1 : Call(t, op, index)
    \/ \E t \in Workers : LoadWithdraws(t)
    \/ \E t \in Workers : LoadUsers(t)
    \/ \E t \in Workers : SaveUsers(t)
    \/ \E t \in Workers : SaveWithdraws(t)

SpecConc == InitConc /\ [][NextConc]_vars

\* ------------------------------------------------------------------ claims
RECURSIVE SumBalances(_, _)
\* The sum of the balances of the users in es.
SumBalances(u, es) ==
    IF es = {} THEN 0
    ELSE LET e == CHOOSE x \in es : TRUE IN u[e].balance + SumBalances(u, es \ {e})

TotalBalance(u) == SumBalances(u, DOMAIN u)

\* The step just taken served this operation / served it with a 2xx response.
Served(op) == last'.op = op
Succeeded(op) == last'.op = op /\ last'.status \in {HTTP_200_OK, HTTP_201_CREATED}
Failed == last'.status \notin {HTTP_200_OK, HTTP_201_CREATED}

StoresUnchanged == USERS_FILE' = USERS_FILE /\ WITHDRAWS_FILE' = WITHDRAWS_FILE

\* The fields of a user other than the balance.
Identity(rec) == <<rec.name, rec.password>>

\* C1: in every reachable state every registered user's balance is >= 0.
C1_BalanceNonNegative ==
    \A e \in DOMAIN users : users[e].balance >= 0

\* A withdrawal of a user's whole balance was accepted and left it at 0.
C1_Witness ==
    /\ last.op = "withdraw" /\ last.status = HTTP_200_OK
    /\ last.amount > 0
    /\ users[last.email].balance = 0

\* C2: a successful transfer(from, to, amount) keeps the sum of all balances,
\* takes exactly amount from the source and gives exactly amount to the
\* destination (net zero when they are the same account), and changes nothing
\* else of any user.
C2_TransferConserves ==
    [][Succeeded("transfer") =>
        /\ DOMAIN users' = DOMAIN users
        /\ TotalBalance(users') = TotalBalance(users)
        /\ \A e \in DOMAIN users :
              /\ users'[e].balance = users[e].balance
                    - (IF e = last'.email THEN last'.amount ELSE 0)
                    + (IF e = last'.to_email THEN last'.amount ELSE 0)
              /\ Identity(users'[e]) = Identity(users[e])]_vars

\* A transfer between two different accounts succeeded.
C2_Witness ==
    /\ last.op = "transfer" /\ last.status = HTTP_200_OK
    /\ last.email # last.to_email
    /\ users[last.to_email].balance >= last.amount

\* C3: a successful withdraw(email, amount) takes exactly amount from that
\* user's balance in the same call and appends exactly one record to the end of
\* the log, with user = email, that amount, status Pending and processed_at
\* null; the request_id returned is the index of the new record, the length
\* of the log before the call.
C3_WithdrawHoldsFunds ==
    [][Succeeded("withdraw") =>
        /\ users'[last'.email].balance = users[last'.email].balance - last'.amount
        /\ Len(withdraws') = Len(withdraws) + 1
        /\ SubSeq(withdraws', 1, Len(withdraws)) = withdraws
        /\ withdraws'[Len(withdraws')].user = last'.email
        /\ withdraws'[Len(withdraws')].amount = last'.amount
        /\ withdraws'[Len(withdraws')].status = "Pending"
        /\ withdraws'[Len(withdraws')].processed_at = None
        /\ last'.request_id = Len(withdraws)
        /\ At(withdraws', last'.request_id) = withdraws'[Len(withdraws')]]_vars

\* A second withdrawal was accepted: its request_id is 1.
C3_Witness ==
    /\ last.op = "withdraw" /\ last.status = HTTP_200_OK
    /\ last.request_id = 1
    /\ Len(withdraws) = 2

\* C4: a successful reject_withdraw(index) adds exactly the request's amount to
\* the balance of the request's user, changes no other balance, and marks the
\* request Rejected (it was Pending).
C4_RejectRefunds ==
    [][Succeeded("reject_withdraw") =>
        LET w == At(withdraws, last'.index) IN
        /\ w.status = "Pending"
        /\ At(withdraws', last'.index).status = "Rejected"
        /\ DOMAIN users' = DOMAIN users
        /\ \A e \in DOMAIN users :
              users'[e].balance = users[e].balance + (IF e = w.user THEN w.amount ELSE 0)]_vars

\* A request was rejected and its user has the amount back.
C4_Witness ==
    /\ last.op = "reject_withdraw" /\ last.status = HTTP_200_OK
    /\ At(withdraws, last.index).status = "Rejected"
    /\ users[At(withdraws, last.index).user].balance >= At(withdraws, last.index).amount

\* C5: approve_withdraw(index), succeeding or failing, leaves the user store as
\* it was; when it succeeds it changes only status and processed_at of the
\* record at index and leaves every other record as it was.
C5_ApproveFrame ==
    [][Served("approve_withdraw") =>
        /\ USERS_FILE' = USERS_FILE
        /\ Succeeded("approve_withdraw") =>
              /\ Len(withdraws') = Len(withdraws)
              /\ \A i \in 0 .. Len(withdraws) - 1 :
                    IF i = last'.index
                    THEN /\ At(withdraws', i).status = "Approved"
                         /\ At(withdraws', i).processed_at # None
                         /\ At(withdraws', i).user = At(withdraws, i).user
                         /\ At(withdraws', i).amount = At(withdraws, i).amount
                         /\ At(withdraws', i).timestamp = At(withdraws, i).timestamp
                    ELSE At(withdraws', i) = At(withdraws, i)]_vars

\* The second of two requests was approved while the first is still Pending.
C5_Witness ==
    /\ last.op = "approve_withdraw" /\ last.status = HTTP_200_OK
    /\ last.index = 1
    /\ At(withdraws, 0).status = "Pending"

\* C6: a request that is Approved or Rejected keeps that status for ever; an
\* approve_withdraw or reject_withdraw call on it fails with 400 "Withdrawal
\* already processed" and changes neither store; a status only ever changes
\* from Pending to Approved or Rejected, by a successful approve or reject call
\* on that index, so a request is resolved at most once.
C6_ResolvedIsFinal ==
    [][/\ \A i \in 0 .. Len(withdraws) - 1 :
            At(withdraws, i).status # "Pending" =>
               /\ Len(withdraws') > i
               /\ At(withdraws', i).status = At(withdraws, i).status
       /\ \A i \in 0 .. Len(withdraws) - 1 :
            (Len(withdraws') > i /\ At(withdraws', i).status # At(withdraws, i).status) =>
               /\ At(withdraws, i).status = "Pending"
               /\ At(withdraws', i).status \in {"Approved", "Rejected"}
               /\ Succeeded("approve_withdraw") \/ Succeeded("reject_withdraw")
               /\ last'.index = i
       /\ (/\ Served("approve_withdraw") \/ Served("reject_withdraw")
           /\ ~InvalidIndex(withdraws, last'.index)
           /\ At(withdraws, last'.index).status # "Pending") =>
               /\ last'.status = HTTP_400_BAD_REQUEST
               /\ last'.detail = "Withdrawal already processed"
               /\ StoresUnchanged
       /\ (Succeeded("approve_withdraw") \/ Succeeded("reject_withdraw")) =>
               /\ At(withdraws, last'.index).status = "Pending"
               /\ At(withdraws', last'.index).status # "Pending"]_vars

\* An approve call on a Rejected request was refused.
C6_Witness ==
    /\ last.op = "approve_withdraw"
    /\ last.status = HTTP_400_BAD_REQUEST
    /\ last.detail = "Withdrawal already processed"
    /\ At(withdraws, last.index).status = "Rejected"

\* C7: every operation that returns an error, a validation error or a failed
\* file read or write, leaves both stores exactly as they were before the call.
C7_ErrorsLeaveStoresUntouched ==
    [][Failed => StoresUnchanged]_vars

\* C8: for every record of the log, processed_at is null if and only if the
\* record is Pending.
C8_ProcessedAtIffResolved ==
    \A i \in 1 .. Len(withdraws) :
        (withdraws[i].processed_at = None) <=> (withdraws[i].status = "Pending")

\* The log holds a Pending request beside an Approved and so stamped one.
C8_Witness ==
    /\ Len(withdraws) = 2
    /\ \E i, j \in 1 .. 2 :
          /\ withdraws[i].status = "Pending"
          /\ withdraws[j].status = "Approved"
          /\ withdraws[j].processed_at # None

\* C9: signup with an email that is already registered fails with 400 "User
\* already exists" whatever the name and the password, a password shorter than
\* 6 characters included, and leaves the existing user as it was.
C9_DuplicateSignupConflict ==
    [][(Served("signup") /\ last'.email \in DOMAIN users) =>
          /\ last'.status = HTTP_400_BAD_REQUEST
          /\ last'.detail = "User already exists"
          /\ users'[last'.email] = users[last'.email]
          /\ StoresUnchanged]_vars

\* A signup with a registered email and a 5-character password met the conflict.
C9_Witness ==
    /\ last.op = "signup"
    /\ last.detail = "User already exists"
    /\ Len(last.password) < MinPasswordLen
    /\ users[last.email].balance > 0

\* C10: transfer and withdraw answer NotFound when a named account is missing,
\* else InvalidInput when amount <= 0, else InsufficientFunds when the source
\* balance is below the amount, and succeed exactly when none applies (an
\* amount equal to the balance included); a rejected call changes no store.
C10_PreconditionOrder ==
    [][(Served("transfer") \/ Served("withdraw")) =>
        LET missing == \/ last'.email \notin DOMAIN users
                       \/ Served("transfer") /\ last'.to_email \notin DOMAIN users
        IN
        /\ IF missing
           THEN last'.status = HTTP_404_NOT_FOUND /\ last'.detail = "User not found"
           ELSE IF last'.amount <= 0
           THEN /\ last'.status = HTTP_400_BAD_REQUEST
                /\ last'.detail = "Amount must be positive"
           ELSE IF users[last'.email].balance < last'.amount
           THEN /\ last'.status = HTTP_400_BAD_REQUEST
                /\ last'.detail = "Insufficient balance"
           ELSE last'.status = HTTP_200_OK
        /\ last'.status # HTTP_200_OK => StoresUnchanged]_vars

\* A transfer naming an unregistered account and a non-positive amount was
\* answered NotFound, the first check in the order.
C10_Witness ==
    /\ last.op = "transfer"
    /\ last.amount <= 0
    /\ last.to_email \notin DOMAIN users
    /\ last.email \in DOMAIN users
    /\ last.status = HTTP_404_NOT_FOUND

\* C11: get_withdraws with a status supplied returns exactly the records whose
\* status equals it compared without regard to case ('pending' selects the
\* Pending records) and answers 400 when the value is none of Pending, Approved,
\* Rejected; with no status (none given, or an empty one) it returns the whole
\* log; it changes no store.
C11_FilterIgnoresCase ==
    [][Served("get_withdraws") =>
        /\ StoresUnchanged
        /\ IF ~Truthy(last'.filter)
           THEN last'.status = HTTP_200_OK /\ last'.records = withdraws
           ELSE IF lower(last'.filter) \in {lower(v) : v \in valid_statuses}
           THEN /\ last'.status = HTTP_200_OK
                /\ last'.records =
                      SelectSeq(withdraws, LAMBDA w : lower(w.status) = lower(last'.filter))
           ELSE last'.status = HTTP_400_BAD_REQUEST]_vars

\* C12: signup succeeds exactly when the email is not yet registered and the
\* password has at least 6 characters; a successful signup adds that email with
\* balance 0 and leaves every other user and the log as they were; a signup
\* that is rejected adds no user.
C12_SignupCreatesUser ==
    [][Served("signup") =>
        LET fresh == last'.email \notin DOMAIN users
            long == Len(last'.password) >= MinPasswordLen
        IN
        /\ (last'.status = HTTP_201_CREATED) <=> (fresh /\ long)
        /\ (fresh /\ long) =>
              /\ DOMAIN users' = DOMAIN users \cup {last'.email}
              /\ users'[last'.email] =
                    [name |-> last'.name, password |-> last'.password, balance |-> 0]
              /\ \A e \in DOMAIN users : users'[e] = users[e]
              /\ WITHDRAWS_FILE' = WITHDRAWS_FILE
        /\ ~(fresh /\ long) => StoresUnchanged]_vars

\* A second user signed up beside one who holds money.
C12_Witness ==
    /\ last.op = "signup" /\ last.status = HTTP_201_CREATED
    /\ users[last.email].balance = 0
    /\ \E e \in DOMAIN users : e # last.email /\ users[e].balance > 0

\* C13: add_balance answers NotFound when from_email is not registered, whatever
\* the amount; else InvalidInput when amount <= 0; else it adds exactly amount
\* to the balance of from_email, whatever to_email is, and changes no other
\* user and not the log.
C13_AddBalanceFrame ==
    [][Served("add_balance") =>
        IF last'.email \notin DOMAIN users
        THEN /\ last'.status = HTTP_404_NOT_FOUND
             /\ last'.detail = "User not found"
             /\ StoresUnchanged
        ELSE IF last'.amount <= 0
        THEN /\ last'.status = HTTP_400_BAD_REQUEST
             /\ last'.detail = "Amount must be positive"
             /\ StoresUnchanged
        ELSE /\ last'.status = HTTP_200_OK
             /\ DOMAIN users' = DOMAIN users
             /\ \A e \in DOMAIN users :
                   users'[e] = [users[e] EXCEPT
                                   !.balance = @ + (IF e = last'.email THEN last'.amount ELSE 0)]
             /\ WITHDRAWS_FILE' = WITHDRAWS_FILE]_vars

\* Money was added to from_email while to_email named the other registered
\* user, whose balance stayed 0, and a request is in the log.
C13_Witness ==
    /\ last.op = "add_balance" /\ last.status = HTTP_200_OK
    /\ last.to_email # last.email
    /\ last.to_email \in DOMAIN users
    /\ users[last.to_email].balance = 0
    /\ users[last.email].balance >= last.amount
    /\ Len(withdraws) > 0

RECURSIVE SumAt(_, _)
\* The sum of the amounts of the records of ws at the positions in is.
SumAt(ws, is) ==
    IF is = {} THEN 0
    ELSE LET i == CHOOSE x \in is : TRUE IN ws[i].amount + SumAt(ws, is \ {i})

\* The sum of the amounts of the records of ws whose status is in statuses.
AmountIn(ws, statuses) ==
    SumAt(ws, {i \in 1 .. Len(ws) : ws[i].status \in statuses})

\* C14: get_stats returns the number of users, the sum of all balances, the
\* length of the log, the sum of the Approved amounts and the sum of the Pending
\* amounts (a Rejected amount counts in neither), and changes neither store.
C14_StatsAggregate ==
    [][Served("get_stats") =>
        /\ last'.status = HTTP_200_OK
        /\ last'.stats.total_users = Cardinality(DOMAIN users)
        /\ last'.stats.total_balance = TotalBalance(users)
        /\ last'.stats.total_withdraws = Len(withdraws)
        /\ last'.stats.approved_withdraws = AmountIn(withdraws, {"Approved"})
        /\ last'.stats.pending_withdraws = AmountIn(withdraws, {"Pending"})
        /\ StoresUnchanged]_vars

\* Statistics taken over two users and a log holding a Rejected request beside
\* a Pending one: only the Pending amount is reported.
C14_Witness ==
    /\ last.op = "get_stats"
    /\ last.stats.total_users = 2
    /\ last.stats.total_withdraws = 2
    /\ \E i, j \in 1 .. Len(withdraws) :
          withdraws[i].status = "Rejected" /\ withdraws[j].status = "Pending"
    /\ last.stats.pending_withdraws > 0
    /\ last.stats.approved_withdraws = 0
    /\ last.stats.total_balance > 0

\* C15: every record of the log names a registered user and has an amount > 0
\* and a status among Pending, Approved, Rejected; no user is ever removed, and
\* reject_withdraw never fails to find the user it refunds.
RecordsWellFormed ==
    /\ \A i \in 1 .. Len(withdraws) :
          /\ withdraws[i].user \in DOMAIN users
          /\ withdraws[i].amount > 0
          /\ withdraws[i].status \in {"Pending", "Approved", "Rejected"}
    /\ last.op = "reject_withdraw" => last.status # HTTP_500_INTERNAL_SERVER_ERROR

C15_RecordsNameUsers ==
    /\ []RecordsWellFormed
    /\ [][DOMAIN users \subseteq DOMAIN users']_vars

\* A request of one user was rejected and refunded while the log also holds a
\* request of the other user.
C15_Witness ==
    /\ last.op = "reject_withdraw" /\ last.status = HTTP_200_OK
    /\ Len(withdraws) = 2
    /\ withdraws[1].user # withdraws[2].user

\* C16: served one at a time and without storage failures, the ledger conserves
\* money: the sum of all balances plus the Pending amounts plus the Approved
\* amounts equals the total credited by successful add_balance calls.
C16_MoneyConserved ==
    TotalBalance(users) + AmountIn(withdraws, {"Pending"})
        + AmountIn(withdraws, {"Approved"}) = credited

\* Credited money is spread over a balance, an Approved request and a refund.
C16_Witness ==
    /\ credited > 1
    /\ TotalBalance(users) > 0
    /\ \E i, j \in 1 .. Len(withdraws) :
          withdraws[i].status = "Approved" /\ withdraws[j].status = "Rejected"

\* C17: the log is append-only: no step shortens it, and the record at every
\* existing position keeps its user, its amount and its timestamp, so a
\* request_id keeps naming the same request.
C17_LogAppendOnly ==
    [][/\ Len(withdraws') >= Len(withdraws)
       /\ \A i \in 1 .. Len(withdraws) :
             /\ withdraws'[i].user = withdraws[i].user
             /\ withdraws'[i].amount = withdraws[i].amount
             /\ withdraws'[i].timestamp = withdraws[i].timestamp]_vars

\* A second request, of another user and another amount, was appended behind
\* the first, which kept its place.
C17_Witness ==
    /\ last.op = "withdraw" /\ last.status = HTTP_200_OK
    /\ Len(withdraws) = 2
    /\ withdraws[1].user # withdraws[2].user
    /\ withdraws[1].amount # withdraws[2].amount
    /\ withdraws[2].user = last.email

\* No call is in progress.
Quiescent == \A t \in Workers : pool.threads[t].pc = "idle"

\* What the balances hold beyond the money that never went into a request:
\* the total of the refunds made.
RefundedTotal ==
    TotalBalance(users)
        - (credited - AmountIn(withdraws, {"Pending", "Approved", "Rejected"}))

\* Once every call has returned, each Rejected request has been refunded once
\* and no other request has been refunded at all.
RefundedOnce == RefundedTotal = AmountIn(withdraws, {"Rejected"})

\* C18 as claimed: with the load and save steps of two handlers interleaved, a
\* request is still refunded at most once, and none ends Approved with its
\* amount refunded.
C18_RefundedOnceInterleaved ==
    Quiescent => RefundedOnce

\* C18 as amended: the same holds as long as no call began while another was
\* in progress.
C18_RefundedOnceSerial ==
    (Quiescent /\ ~pool.overlap) => RefundedOnce

\* Two calls ran one after the other: the request was rejected and refunded,
\* and the second call on it was refused.
C18_Witness ==
    /\ Quiescent /\ ~pool.overlap
    /\ pool.calls >= 2
    /\ last.status = HTTP_400_BAD_REQUEST
    /\ At(withdraws, last.index).status = "Rejected"
    /\ RefundedTotal = At(withdraws, last.index).amount

=============================================================================
